---- MODULE Spec2Model ----
(***************************************************************************)
(* Drone flight simulator (src/simulator/simulator.py): the mission state  *)
(* machine, the navigation/battery/noise step, the tick loop and the       *)
(* command-receive coroutine that share one asyncio event loop.            *)
(*                                                                         *)
(* Units.  Floats are fixed-point integers:                                *)
(*   latitude, longitude   decimetres north / east of the construction     *)
(*                         default position (40.7128, -74.0060)            *)
(*   altitude_m            decimetres                                      *)
(*   *_speed_ms            decimetres per second                           *)
(*   heading, yaw, bearing degrees, resolved to multiples of 45            *)
(*   roll_deg, pitch_deg   tenths of a degree                              *)
(*   battery_percent       1/240000 of a percent (every drain is a whole   *)
(*                         number of these)                                *)
(*   wind_speed_ms         metres per second                               *)
(*   dt                    seconds                                         *)
(***************************************************************************)
EXTENDS Integers, Sequences, FiniteSets, TLC

VARIABLES
    state,                  \* self.state: DroneState
    waypoints,              \* self.waypoints
    current_waypoint_index, \* self.current_waypoint_index (0-based cursor)
    mission_id,             \* self.mission_id
    mission_status,         \* self.mission_status
    websocket,              \* self.websocket: "none" | "open" | "closed"
    running,                \* self.running
    tick_pc,                \* where the run_simulation_loop task is suspended
    tick_dt,                \* update_simulation's local dt while it is suspended
    listening,              \* the listen_for_commands task is alive
    sent,                   \* messages the latest step handed to websocket.send
    run_events,             \* mission_status messages the tick sent since the latest accepted start
    run_total,              \* number of waypoints of the latest accepted start
    ticks,                  \* loop iterations that found the mission running
    cmds,                   \* messages received by listen_for_commands
    dropped,                \* of them, one at least was dropped unhandled
    anomalies               \* of the ticks, the ones whose dt or random draw was not the nominal one

vars == <<state, waypoints, current_waypoint_index, mission_id, mission_status,
          websocket, running, tick_pc, tick_dt, listening, sent,
          run_events, run_total, ticks, cmds, dropped, anomalies>>

\* The control plane (src/backend): the database, the WebSocketManager and the
\* two directions of the simulator's connection.
VARIABLES
    missions,               \* Mission.status of every row of the missions table
    mission_logs,           \* the rows of the mission_logs table, oldest first
    simulator_connections,  \* WebSocketManager.simulator_connections
    websocket_simulator,    \* the /ws/simulator coroutine: "none" | "serving" | "raised"
    to_simulator,           \* commands sent to the simulator and not yet received
    to_backend,             \* simulator messages sent and not yet received
    request,                \* the latest HTTP request
    response,               \* its status code
    requests,               \* HTTP requests made
    started,                \* mission ids whose start the simulator accepted
    telemetry_connections,  \* WebSocketManager.telemetry_connections
    clients,                \* every telemetry client socket: its state and its mission
    broadcast               \* the broadcast_telemetry / send_mission_update call in progress

cpvars == <<missions, mission_logs, simulator_connections, websocket_simulator,
            to_simulator, to_backend, request, response, requests, started>>

wsvars == <<telemetry_connections, clients, broadcast>>

----------------------------------------------------------------------------
\* Bounds of the exploration.
MaxTicks == 3
MaxAnomalies == 1
MaxCmds == 4

\* Program constants, in the units above.
max_speed_ms == 150
max_vertical_speed_ms == 50
position_tolerance_m == 20
BatteryFull == 24000000
BatteryCritical == 1200000
DefaultSatellites == 12
DefaultGpsFix == 3

\* self.mission_id before any start (Python's None; descriptors carry ids >= 0).
None == -1

\* The elapsed times a tick can compute from time.time(): a clock stepped
\* back, a clock read twice in the same instant, the nominal second, and a
\* process that was suspended for most of a day.
DtSet == {-1, 0, 1, 60000}

\* Wind drawn once at construction (speed in 0..5 m/s, direction in degrees).
WindSamples == {[speed |-> 5, direction |-> 180]}

\* One draw of every random number a tick uses: all of them below the
\* resolution, or a draw that is not.
Quiet ==
    [ground |-> 0, gps_lat |-> 0, gps_lon |-> 0, alt |-> 0, roll |-> 0,
     pitch |-> 0, speed |-> 0, ground_noise |-> 0, sat |-> 0, resample_fix |-> FALSE,
     fix |-> 3]
RandomSamples ==
    { Quiet,
      [ground |-> 5, gps_lat |-> 11, gps_lon |-> -8, alt |-> -5, roll |-> 5,
       pitch |-> -5, speed |-> 1, ground_noise |-> -1, sat |-> -2, resample_fix |-> TRUE,
       fix |-> 2] }

\* The nominal tick is one second, so that a turn (45 degrees per second) is
\* a whole step of the heading resolution, and its draw is the quiet one;
\* every other tick is counted against MaxAnomalies.
Anomalous(dt, r) == dt # 1 \/ r # Quiet
\* What a tick is given: an elapsed time with the quiet draw, or the nominal
\* second with any draw.
TickInputs ==
    [dt : DtSet, r : {Quiet}] \cup [dt : {1}, r : RandomSamples]

\* Mission descriptors a start command can carry.
WpA == [latitude |-> 0, longitude |-> 0, altitude_m |-> 500]
WpB == [latitude |-> 30, longitude |-> 0, altitude_m |-> 500]
Descriptors ==
    { [mission_id |-> 1, waypoints |-> <<WpA, WpB>>],
      [mission_id |-> 0, waypoints |-> <<WpA>>],
      [mission_id |-> 1, waypoints |-> << >>] }

\* random.uniform(-0.001, 0.001) degrees around the first waypoint.
StartOffsets == {[latitude |-> 0, longitude |-> 0],
                 [latitude |-> -250, longitude |-> 0]}

----------------------------------------------------------------------------
\* Arithmetic helpers.
Min(a, b) == IF a <= b THEN a ELSE b
Max(a, b) == IF a >= b THEN a ELSE b
Abs(a) == IF a >= 0 THEN a ELSE -a
\* Division rounding toward zero (the fixed-point image of a float quotient).
Quot(a, b) == IF a >= 0 THEN a \div b ELSE -((-a) \div b)

RECURSIVE SqrtIter(_, _, _)
SqrtIter(n, lo, hi) ==
    IF lo >= hi THEN lo
    ELSE LET mid == (lo + hi + 1) \div 2
         IN  IF mid * mid <= n THEN SqrtIter(n, mid, hi)
             ELSE SqrtIter(n, lo, mid - 1)
Isqrt(n) == SqrtIter(n, 0, Min(n, 46340))

\* cos and sin of a multiple of 45 degrees, in thousandths.
CosMilli(deg) ==
    LET d == deg % 360
    IN  CASE d = 0 -> 1000 [] d = 45 -> 707 [] d = 90 -> 0 [] d = 135 -> -707
          [] d = 180 -> -1000 [] d = 225 -> -707 [] d = 270 -> 0
          [] d = 315 -> 707
SinMilli(deg) == CosMilli(deg + 270)
\* x * c / 1000 for c in thousandths, rounded toward zero, without forming
\* the full product.
MulMilli(x, c) ==
    LET a == Abs(x)
        m == (a \div 1000) * c + Quot((a % 1000) * c, 1000)
    IN  IF x >= 0 THEN m ELSE -m

----------------------------------------------------------------------------
\* Geodesy.  On the scale of a field the great circle is the plane.
calculate_distance(lat1, lon1, lat2, lon2) ==
    Isqrt((lat2 - lat1) * (lat2 - lat1) + (lon2 - lon1) * (lon2 - lon1))

\* atan2(east, north) in [0, 360), to the nearest multiple of 45 degrees
\* (tan 22.5 = 0.414); atan2(0, 0) = 0.
calculate_bearing(lat1, lon1, lat2, lon2) ==
    LET dn == lat2 - lat1
        de == lon2 - lon1
    IN  IF 1000 * Abs(de) <= 414 * Abs(dn)
        THEN (IF dn >= 0 THEN 0 ELSE 180)
        ELSE IF 1000 * Abs(dn) <= 414 * Abs(de)
        THEN (IF de > 0 THEN 90 ELSE 270)
        ELSE IF dn > 0 THEN (IF de > 0 THEN 45 ELSE 315)
        ELSE (IF de > 0 THEN 135 ELSE 225)

----------------------------------------------------------------------------
\* DroneState.__init__ with the wind sample w.
DroneState(w) ==
    [latitude |-> 0, longitude |-> 0, altitude_m |-> 0, heading_deg |-> 0,
     speed_ms |-> 0, ground_speed_ms |-> 0, vertical_speed_ms |-> 0,
     roll_deg |-> 0, pitch_deg |-> 0, yaw_deg |-> 0,
     battery_percent |-> BatteryFull,
     gps_fix_type |-> DefaultGpsFix, satellites_visible |-> DefaultSatellites,
     is_flying |-> FALSE, is_armed |-> FALSE, mission_active |-> FALSE,
     wind_speed_ms |-> w.speed, wind_direction_deg |-> w.direction]

\* Waypoint.__init__ (action "fly_to" and duration 0 are never read).
Waypoint(lat, lng, alt) ==
    [latitude |-> lat, longitude |-> lng, altitude_m |-> alt, completed |-> FALSE]

\* The simulator object the methods below transform.
Self ==
    [state |-> state, waypoints |-> waypoints,
     current_waypoint_index |-> current_waypoint_index,
     mission_id |-> mission_id, mission_status |-> mission_status,
     websocket |-> websocket, tick_pc |-> tick_pc, tick_dt |-> tick_dt,
     log |-> << >>]          \* what this step hands to websocket.send

\* move_towards_waypoint: the new DroneState and whether the waypoint is reached.
move_towards_waypoint_stops(st, waypoint, dt, r) ==
    LET distance_to_target ==
            calculate_distance(st.latitude, st.longitude,
                               waypoint.latitude, waypoint.longitude)
        target_bearing ==
            calculate_bearing(st.latitude, st.longitude,
                              waypoint.latitude, waypoint.longitude)
        altitude_difference == waypoint.altitude_m - st.altitude_m
        bearing_diff == ((target_bearing - st.heading_deg + 180) % 360) - 180
        max_heading_change == 45 * dt
        heading_change == Max(-max_heading_change, Min(max_heading_change, bearing_diff))
        heading == (st.heading_deg + heading_change) % 360
        horizontal_speed == Min(max_speed_ms, distance_to_target \div 2)
        vertical_speed == Max(-max_vertical_speed_ms,
                              Min(max_vertical_speed_ms, Quot(altitude_difference, 2)))
        wind_effect_x == st.wind_speed_ms * CosMilli(st.wind_direction_deg)
        wind_effect_y == st.wind_speed_ms * SinMilli(st.wind_direction_deg)
        distance_moved == horizontal_speed * dt
        dlat == MulMilli(distance_moved, CosMilli(heading))
                  + Quot(wind_effect_x * dt, 1000)
        dlon == MulMilli(distance_moved, SinMilli(heading))
                  + Quot(wind_effect_y * dt, 1000)
        moving == horizontal_speed > 10
    IN  IF distance_to_target <= position_tolerance_m
        THEN [reached |-> TRUE,
              state |-> [st EXCEPT !.speed_ms = 0, !.ground_speed_ms = 0,
                                   !.vertical_speed_ms = 0]]
        ELSE [reached |-> FALSE,
              state |-> [st EXCEPT
                  !.heading_deg = heading,
                  !.latitude = @ + dlat,
                  !.longitude = @ + dlon,
                  !.altitude_m = @ + vertical_speed * dt,
                  !.speed_ms = horizontal_speed,
                  !.ground_speed_ms = horizontal_speed + r.ground,
                  !.vertical_speed_ms = vertical_speed,
                  !.roll_deg = IF moving THEN Max(-150, Min(150, bearing_diff * 3))
                               ELSE Quot(@ * 9, 10),
                  !.pitch_deg = IF moving THEN Max(-100, Min(100, Quot(-horizontal_speed, 2)))
                                ELSE Quot(@ * 9, 10),
                  !.yaw_deg = heading]]
move_towards_waypoint(st, waypoint, dt, r) ==
    LET distance_to_target ==
            calculate_distance(st.latitude, st.longitude,
                               waypoint.latitude, waypoint.longitude)
        target_bearing ==
            calculate_bearing(st.latitude, st.longitude,
                              waypoint.latitude, waypoint.longitude)
        altitude_difference == waypoint.altitude_m - st.altitude_m
        bearing_diff == ((target_bearing - st.heading_deg + 180) % 360) - 180
        max_heading_change == 45 * dt
        heading_change == Max(-max_heading_change, Min(max_heading_change, bearing_diff))
        heading == (st.heading_deg + heading_change) % 360
        horizontal_speed == Min(max_speed_ms, distance_to_target \div 2)
        vertical_speed == Max(-max_vertical_speed_ms,
                              Min(max_vertical_speed_ms, Quot(altitude_difference, 2)))
        wind_effect_x == st.wind_speed_ms * CosMilli(st.wind_direction_deg)
        wind_effect_y == st.wind_speed_ms * SinMilli(st.wind_direction_deg)
        distance_moved == horizontal_speed * dt
        dlat == MulMilli(distance_moved, CosMilli(heading))
                  + Quot(wind_effect_x * dt, 1000)
        dlon == MulMilli(distance_moved, SinMilli(heading))
                  + Quot(wind_effect_y * dt, 1000)
        moving == horizontal_speed > 10
    IN  IF distance_to_target <= position_tolerance_m
        THEN [reached |-> TRUE, state |-> st]
        ELSE [reached |-> FALSE,
              state |-> [st EXCEPT
                  !.heading_deg = heading,
                  !.latitude = @ + dlat,
                  !.longitude = @ + dlon,
                  !.altitude_m = @ + vertical_speed * dt,
                  !.speed_ms = horizontal_speed,
                  !.ground_speed_ms = horizontal_speed + r.ground,
                  !.vertical_speed_ms = vertical_speed,
                  !.roll_deg = IF moving THEN Max(-150, Min(150, bearing_diff * 3))
                               ELSE Quot(@ * 9, 10),
                  !.pitch_deg = IF moving THEN Max(-100, Min(100, Quot(-horizontal_speed, 2)))
                                ELSE Quot(@ * 9, 10),
                  !.yaw_deg = heading]]

\* The drain of one tick: 0.1 %/min, x1.5 above 10 m/s, x1.3 above 2 m/s of
\* climb, x(1 + wind/20), times dt/60.
battery_drop(st, dt) ==
    (IF st.speed_ms > 100 THEN 3 ELSE 2)
      * (IF Abs(st.vertical_speed_ms) > 20 THEN 13 ELSE 10)
      * (20 + st.wind_speed_ms) * dt

\* update_battery.
update_battery(s, dt) ==
    LET battery == Max(0, s.state.battery_percent - battery_drop(s.state, dt))
    IN  [s EXCEPT
            !.state.battery_percent = battery,
            !.mission_status =
                IF battery < BatteryCritical /\ @ = "running" THEN "aborted" ELSE @]

\* add_realistic_noise (heading jitter of 0.2 degrees is below the heading
\* resolution).
add_realistic_noise(st, r) ==
    [st EXCEPT
        !.latitude = @ + r.gps_lat,
        !.longitude = @ + r.gps_lon,
        !.altitude_m = @ + r.alt,
        !.roll_deg = @ + r.roll,
        !.pitch_deg = @ + r.pitch,
        !.speed_ms = @ + r.speed,
        !.ground_speed_ms = @ + r.ground_noise,
        !.satellites_visible = Max(6, Min(20, @ + r.sat)),
        !.gps_fix_type = IF r.resample_fix THEN r.fix ELSE @]

\* round(x, ndigits) to a multiple of q, ties to even as Python rounds.
Round(x, q) ==
    LET lo == (x \div q) * q
        rem == x - lo
    IN  IF 2 * rem < q THEN lo
        ELSE IF 2 * rem > q THEN lo + q
        ELSE IF (x \div q) % 2 = 0 THEN lo ELSE lo + q

\* get_telemetry_data: battery to 0.1 %, speeds to 0.01 m/s (coordinates,
\* altitude and angles are already coarser than their rounding).
get_telemetry_data(s) ==
    [mission_id |-> s.mission_id,
     latitude |-> s.state.latitude,
     longitude |-> s.state.longitude,
     altitude_m |-> s.state.altitude_m,
     speed_ms |-> s.state.speed_ms,
     battery_percent |-> Round(s.state.battery_percent, 24000),
     heading_deg |-> s.state.heading_deg,
     roll_deg |-> s.state.roll_deg,
     pitch_deg |-> s.state.pitch_deg,
     yaw_deg |-> s.state.yaw_deg,
     gps_fix_type |-> s.state.gps_fix_type,
     satellites_visible |-> s.state.satellites_visible,
     ground_speed_ms |-> s.state.ground_speed_ms,
     vertical_speed_ms |-> s.state.vertical_speed_ms]

\* A message as websocket.send takes it, with the cursor at the moment of
\* the send.
Sent(s, type, data) ==
    [type |-> type, data |-> data,
     cursor |-> s.current_waypoint_index]

\* disconnect_from_backend.
disconnect_from_backend(s) ==
    IF s.websocket # "none" THEN [s EXCEPT !.websocket = "none"] ELSE s

\* send_telemetry: nothing without a websocket; a closed one is dropped.
send_telemetry(s) ==
    IF s.websocket = "none" THEN s
    ELSE IF s.websocket = "closed" THEN disconnect_from_backend(s)
    ELSE [s EXCEPT !.log = Append(@, Sent(s, "telemetry", get_telemetry_data(s)))]

\* send_mission_status: nothing without a websocket; a send that raises is
\* logged and forgotten.
send_mission_status(s, status, message) ==
    IF s.websocket # "open" THEN s
    ELSE [s EXCEPT !.log = Append(@, Sent(s, "mission_status",
             [mission_id |-> s.mission_id, status |-> status, message |-> message,
              current_waypoint |-> s.current_waypoint_index,
              total_waypoints |-> Len(s.waypoints)]))]

\* The words of the texts send_mission_status is called with, in lower case.
Words(message) ==
    CASE message = "Mission started" -> <<"mission", "started">>
      [] message = "Mission paused" -> <<"mission", "paused">>
      [] message = "Mission resumed" -> <<"mission", "resumed">>
      [] message = "Mission aborted by user" -> <<"mission", "aborted", "by", "user">>
      [] message = "All waypoints reached" -> <<"all", "waypoints", "reached">>
      [] message = "Reached waypoint" -> <<"reached", "waypoint">>
      [] message = "Mission completed successfully" ->
             <<"mission", "completed", "successfully">>

\* Python's truth value of mission_id.
Truthy(v) == v # None /\ v # 0

----------------------------------------------------------------------------
\* The mission state machine.

\* start_mission with the random offset of the take-off position.
start_mission_unguarded(s, mission_data, offset) ==
    LET wps == [i \in 1..Len(mission_data.waypoints) |->
                   Waypoint(mission_data.waypoints[i].latitude,
                            mission_data.waypoints[i].longitude,
                            mission_data.waypoints[i].altitude_m)]
    IN  IF wps = << >>
        THEN [s EXCEPT !.mission_id = mission_data.mission_id, !.waypoints = wps]
        ELSE [s EXCEPT
                 !.mission_id = mission_data.mission_id,
                 !.waypoints = wps,
                 !.state.latitude = wps[1].latitude + offset.latitude,
                 !.state.longitude = wps[1].longitude + offset.longitude,
                 !.state.altitude_m = 0,
                 !.current_waypoint_index = 0,
                 !.mission_status = "running",
                 !.state.is_flying = TRUE,
                 !.state.mission_active = TRUE]
start_mission_runs_empty(s, mission_data, offset) ==
    LET wps == [i \in 1..Len(mission_data.waypoints) |->
                   Waypoint(mission_data.waypoints[i].latitude,
                            mission_data.waypoints[i].longitude,
                            mission_data.waypoints[i].altitude_m)]
    IN  IF s.mission_status = "running" THEN s
        ELSE IF wps = << >>
        THEN [s EXCEPT !.mission_id = mission_data.mission_id, !.waypoints = wps,
                       !.current_waypoint_index = 0,
                       !.mission_status = "running",
                       !.state.is_flying = TRUE,
                       !.state.mission_active = TRUE]
        ELSE [s EXCEPT
                 !.mission_id = mission_data.mission_id,
                 !.waypoints = wps,
                 !.state.latitude = wps[1].latitude + offset.latitude,
                 !.state.longitude = wps[1].longitude + offset.longitude,
                 !.state.altitude_m = 0,
                 !.current_waypoint_index = 0,
                 !.mission_status = "running",
                 !.state.is_flying = TRUE,
                 !.state.mission_active = TRUE]
start_mission(s, mission_data, offset) ==
    LET wps == [i \in 1..Len(mission_data.waypoints) |->
                   Waypoint(mission_data.waypoints[i].latitude,
                            mission_data.waypoints[i].longitude,
                            mission_data.waypoints[i].altitude_m)]
    IN  IF s.mission_status = "running" THEN s
        ELSE IF wps = << >>
        THEN [s EXCEPT !.mission_id = mission_data.mission_id, !.waypoints = wps]
        ELSE [s EXCEPT
                 !.mission_id = mission_data.mission_id,
                 !.waypoints = wps,
                 !.state.latitude = wps[1].latitude + offset.latitude,
                 !.state.longitude = wps[1].longitude + offset.longitude,
                 !.state.altitude_m = 0,
                 !.current_waypoint_index = 0,
                 !.mission_status = "running",
                 !.state.is_flying = TRUE,
                 !.state.mission_active = TRUE]

pause_mission_toggle(s) ==
    IF s.mission_status = "running" THEN [s EXCEPT !.mission_status = "paused"]
    ELSE IF s.mission_status = "paused" THEN [s EXCEPT !.mission_status = "running"]
    ELSE s
pause_mission(s) ==
    IF s.mission_status = "running" THEN [s EXCEPT !.mission_status = "paused"] ELSE s

resume_mission(s) ==
    IF s.mission_status = "paused" THEN [s EXCEPT !.mission_status = "running"] ELSE s

abort_mission_keeps_active(s) ==
    IF s.mission_status \in {"running", "paused"}
    THEN [s EXCEPT !.mission_status = "aborted"]
    ELSE s
abort_mission(s) ==
    IF s.mission_status \in {"running", "paused"}
    THEN [s EXCEPT !.mission_status = "aborted", !.state.mission_active = FALSE]
    ELSE s

\* handle_command: the method, then its status message, whatever the method did.
handle_command(s, action, mission_data, offset) ==
    CASE action = "start" ->
           send_mission_status(start_mission(s, mission_data, offset),
                               "started", "Mission started")
      [] action = "pause" ->
           send_mission_status(pause_mission(s), "paused", "Mission paused")
      [] action = "resume" ->
           send_mission_status(resume_mission(s), "resumed", "Mission resumed")
      [] action = "abort" ->
           send_mission_status(abort_mission(s), "aborted", "Mission aborted by user")
      [] OTHER -> s

\* Lines 480-487 of listen_for_commands, for one received message: json.loads,
\* the test of its type, handle_command.  A message that does not parse, or
\* that is no command, is dropped.
listen_for_commands_any_type(s, message, offset) ==
    IF ~message.well_formed THEN s
    ELSE handle_command(s, message.action, message.mission_data, offset)
listen_for_commands(s, message, offset) ==
    IF ~message.well_formed THEN s
    ELSE IF message.type # "command" THEN s
    ELSE handle_command(s, message.action, message.mission_data, offset)

----------------------------------------------------------------------------
\* One iteration of run_simulation_loop, cut where a websocket.send can
\* suspend the task: a send on an open websocket may yield to the event
\* loop, nothing else in update_simulation does.

\* Lines 505-510: the telemetry of the iteration, then the sleep.
LoopTail(s) ==
    LET due == s.mission_status \in {"running", "paused"} /\ Truthy(s.mission_id)
        t == IF due THEN send_telemetry(s) ELSE s
    IN  [t EXCEPT !.tick_pc = "sleep"]

\* The task suspended in the send it has just made.
Suspend(s, pc, dt) == [s EXCEPT !.tick_pc = pc, !.tick_dt = dt]

\* Lines 442-444: update systems.
UpdateSystems(s, dt, r) ==
    LET b == update_battery(s, dt)
    IN  LoopTail([b EXCEPT !.state = add_realistic_noise(@, r)])

\* Lines 436-440: the completion check after a waypoint was reached.
CheckComplete_silent(s, dt, r) ==
    IF s.current_waypoint_index >= Len(s.waypoints)
    THEN UpdateSystems([s EXCEPT !.mission_status = "completed",
                                 !.state.mission_active = FALSE], dt, r)
    ELSE UpdateSystems(s, dt, r)
CheckComplete(s, dt, r) ==
    IF s.current_waypoint_index >= Len(s.waypoints)
    THEN LET c == [s EXCEPT !.mission_status = "completed",
                            !.state.mission_active = FALSE]
             e == send_mission_status(c, "completed", "Mission completed successfully")
         IN  IF c.websocket = "open" THEN Suspend(e, "sent_completed", dt)
             ELSE UpdateSystems(e, dt, r)
    ELSE UpdateSystems(s, dt, r)

\* Lines 424-427: mark the target completed and move the cursor to the next.
MarkReached_keeps_cursor(s) ==
    [s EXCEPT !.waypoints[s.current_waypoint_index + 1].completed = TRUE]
MarkReached_keeps_flag(s) ==
    [s EXCEPT !.current_waypoint_index = @ + 1]
MarkReached(s) ==
    [s EXCEPT !.waypoints[s.current_waypoint_index + 1].completed = TRUE,
              !.current_waypoint_index = @ + 1]

\* update_simulation from its first line.
update_simulation(s, dt, r) ==
    IF s.mission_status # "running" THEN LoopTail(s)
    ELSE IF s.waypoints = << >> \/ s.current_waypoint_index >= Len(s.waypoints)
    THEN LET c == [s EXCEPT !.mission_status = "completed",
                            !.state.mission_active = FALSE]
             e == send_mission_status(c, "completed", "All waypoints reached")
         IN  IF c.websocket = "open" THEN Suspend(e, "sent_all_reached", dt)
             ELSE LoopTail(e)
    ELSE LET m == move_towards_waypoint(s.state,
                      s.waypoints[s.current_waypoint_index + 1], dt, r)
         IN  IF m.reached
             THEN LET w == MarkReached(s)
                      e == send_mission_status(w, "waypoint_reached", "Reached waypoint")
                  IN  IF w.websocket = "open" THEN Suspend(e, "sent_waypoint_reached", dt)
                      ELSE CheckComplete(e, dt, r)
             ELSE UpdateSystems([s EXCEPT !.state = m.state], dt, r)

----------------------------------------------------------------------------
\* The missions of the database: 1 has one waypoint, 2 has two.
MissionIds == {1, 2}

\* The sockets that connect, each once, as clients of a mission's telemetry.
Clients == {1, 2, 3}

\* The control plane after start-up: every mission planned, nothing connected.
\* A key a PATCH body does not hold (None is a JSON null).
Absent == -2
NoUpdate == [progress |-> Absent, current_waypoint_index |-> Absent]
NoRequest == [endpoint |-> "none", mission_id |-> None, state_update |-> NoUpdate]
NoBroadcast ==
    [pc |-> "idle", call |-> "none", mission_id |-> None, members |-> {},
     visited |-> {}, client |-> None, disconnected_clients |-> {},
     detached |-> FALSE, raised |-> FALSE]

ControlPlaneInit ==
    /\ missions = [id \in MissionIds |-> "planned"]
    /\ mission_logs = << >>
    /\ simulator_connections = {}
    /\ websocket_simulator = "none"
    /\ to_simulator = << >>
    /\ to_backend = << >>
    /\ request = NoRequest
    /\ response = 0
    /\ requests = 0
    /\ started = {}
    /\ telemetry_connections = [id \in {} |-> {}]
    /\ clients = [client \in Clients |-> [status |-> "new", mission_id |-> None]]
    /\ broadcast = NoBroadcast

\* The state after DroneSimulator() is constructed.
Init ==
    /\ ControlPlaneInit
    /\ state \in {DroneState(w) : w \in WindSamples}
    /\ waypoints = << >>
    /\ current_waypoint_index = 0
    /\ mission_id = None
    /\ mission_status = "idle"
    /\ websocket = "none"
    /\ running = FALSE
    /\ tick_pc = "init"
    /\ tick_dt = 0
    /\ listening = FALSE
    /\ sent = << >>
    /\ run_events = << >>
    /\ run_total = 0
    /\ ticks = 0
    /\ cmds = 0
    /\ dropped = FALSE
    /\ anomalies = 0

\* The simulator object after a method returned (or suspended).
Commit(s) ==
    /\ state' = s.state
    /\ waypoints' = s.waypoints
    /\ current_waypoint_index' = s.current_waypoint_index
    /\ mission_id' = s.mission_id
    /\ mission_status' = s.mission_status
    /\ websocket' = s.websocket
    /\ tick_pc' = s.tick_pc
    /\ tick_dt' = s.tick_dt
    /\ sent' = s.log

\* The mission_status messages among msgs.
StatusMessages(msgs) == SelectSeq(msgs, LAMBDA m : m.type = "mission_status")

\* run: connect_to_backend succeeds or not, then the tasks are created.
Run ==
    /\ tick_pc = "init"
    /\ \E connected \in BOOLEAN :
          /\ websocket' = IF connected THEN "open" ELSE "none"
          /\ listening' = connected
    /\ running' = TRUE
    /\ tick_pc' = "sleep"
    /\ UNCHANGED <<state, waypoints, current_waypoint_index, mission_id,
                   mission_status, tick_dt, sent, run_events,
                   run_total, ticks, cmds, dropped, anomalies>>

\* A loop iteration begins with elapsed time dt and random draw r:
\* update_simulation up to its first suspension.
Iteration(dt, r) ==
    /\ tick_pc = "sleep"
    /\ running
    /\ mission_status = "running" /\ Anomalous(dt, r) => anomalies < MaxAnomalies
    /\ LET s == update_simulation(Self, dt, r)
       IN  /\ Commit(s)
           /\ run_events' = run_events \o StatusMessages(s.log)
    /\ anomalies' = IF mission_status = "running" /\ Anomalous(dt, r)
                    THEN anomalies + 1 ELSE anomalies
    /\ UNCHANGED <<running, listening, run_total, cmds, dropped>>

\* The iterations explored: at most MaxTicks of them find the mission running.
TickWith(dt, r) ==
    /\ mission_status = "running" => ticks < MaxTicks
    /\ Iteration(dt, r)
    /\ ticks' = IF mission_status = "running" THEN ticks + 1 ELSE ticks

\* update_simulation reads neither dt nor a random draw unless the mission is
\* running (line 404), so one input stands for all of them then.
Tick ==
    \E in \in TickInputs :
        /\ mission_status # "running" => ~Anomalous(in.dt, in.r)
        /\ TickWith(in.dt, in.r)

\* The rest of an iteration, from the send that suspended it.
ResumeWith(s, r) ==
    /\ r # Quiet => anomalies < MaxAnomalies
    /\ Commit(s)
    /\ run_events' = run_events \o StatusMessages(s.log)
    /\ anomalies' = IF r # Quiet THEN anomalies + 1 ELSE anomalies
    /\ UNCHANGED <<running, listening, run_total, ticks, cmds, dropped>>

\* The send of "All waypoints reached" completes: return, telemetry, sleep.
ResumeAllReached ==
    /\ tick_pc = "sent_all_reached"
    /\ ResumeWith(LoopTail(Self), Quiet)

\* The send of waypoint_reached completes: line 437 onwards.
ResumeWaypointReached ==
    /\ tick_pc = "sent_waypoint_reached"
    /\ \E r \in RandomSamples : ResumeWith(CheckComplete(Self, tick_dt, r), r)

\* The send of "Mission completed successfully" completes: line 443 onwards.
ResumeCompleted ==
    /\ tick_pc = "sent_completed"
    /\ \E r \in RandomSamples : ResumeWith(UpdateSystems(Self, tick_dt, r), r)

\* The actions a command message can name ("land" stands for any other).
Actions == {"start", "pause", "resume", "abort", "land"}

\* What a command that is no start carries.
NoData == [mission_id |-> None, waypoints |-> << >>]
NoOffset == [latitude |-> 0, longitude |-> 0]

\* listen_for_commands receives a command and handle_command runs to its send.
\* The tick task is suspended whenever this task runs.
CommandWith(action, mission_data, offset) ==
    /\ listening
    /\ cmds < MaxCmds
    /\ cmds' = cmds + 1
    /\ LET s == handle_command(Self, action, mission_data, offset)
           accepted == /\ action = "start"
                       /\ mission_status # "running"
                       /\ mission_data.waypoints # << >>
       IN  /\ Commit(s)
           /\ run_events' = IF accepted THEN << >> ELSE run_events
           /\ run_total' = IF accepted THEN Len(mission_data.waypoints) ELSE run_total
    /\ dropped' = (dropped \/ action \notin {"start", "pause", "resume", "abort"})
    /\ UNCHANGED <<running, listening, ticks, anomalies>>

Command ==
    \/ \E mission_data \in Descriptors, offset \in StartOffsets :
          CommandWith("start", mission_data, offset)
    \/ \E action \in Actions \ {"start"} : CommandWith(action, NoData, NoOffset)

\* Messages that are no command: text that is not JSON (an abort command cut
\* short), and JSON of another type that names an action all the same.
OtherMessages ==
    { [well_formed |-> FALSE, type |-> "command", action |-> "abort",
       mission_data |-> NoData],
      [well_formed |-> TRUE, type |-> "telemetry", action |-> "abort",
       mission_data |-> NoData] }

\* listen_for_commands receives a message that is no command.
ReceiveOther ==
    /\ listening
    /\ cmds < MaxCmds
    /\ cmds' = cmds + 1
    /\ \E message \in OtherMessages :
          Commit(listen_for_commands(Self, message, NoOffset))
    /\ dropped' = TRUE
    /\ UNCHANGED <<running, listening, run_events, run_total, ticks, anomalies>>

\* The connection drops: every later send on it raises.
ConnectionLost ==
    /\ websocket = "open"
    /\ websocket' = "closed"
    /\ UNCHANGED <<state, waypoints, current_waypoint_index, mission_id,
                   mission_status, running, tick_pc, tick_dt, listening,
                   sent, run_events, run_total, ticks, cmds, dropped,
                   anomalies>>

\* listen_for_commands ends once its connection is closed.
ListenerExit ==
    /\ listening
    /\ websocket # "open"
    /\ listening' = FALSE
    /\ UNCHANGED <<state, waypoints, current_waypoint_index, mission_id,
                   mission_status, websocket, running, tick_pc, tick_dt,
                   sent, run_events, run_total, ticks, cmds, dropped,
                   anomalies>>

\* The simulator on its own: commands arrive from a backend that is not
\* modelled, and the control plane's state stays as it is.
Next ==
    \/ Run /\ UNCHANGED <<cpvars, wsvars>>
    \/ Tick /\ UNCHANGED <<cpvars, wsvars>>
    \/ ResumeAllReached /\ UNCHANGED <<cpvars, wsvars>>
    \/ ResumeWaypointReached /\ UNCHANGED <<cpvars, wsvars>>
    \/ ResumeCompleted /\ UNCHANGED <<cpvars, wsvars>>
    \/ Command /\ UNCHANGED <<cpvars, wsvars>>
    \/ ReceiveOther /\ UNCHANGED <<cpvars, wsvars>>
    \/ ConnectionLost /\ UNCHANGED <<cpvars, wsvars>>
    \/ ListenerExit /\ UNCHANGED <<cpvars, wsvars>>

Spec == Init /\ [][Next]_vars

----------------------------------------------------------------------------
\* One mission that no command pauses or aborts, flown for as long as it
\* takes: the loop iterates without a cap, and the only command is the start
\* of a mission with waypoints.  ("All waypoints reached" needs a resume after
\* a start without waypoints, so that send never suspends here.)
LiveTick ==
    \E in \in TickInputs :
        /\ mission_status # "running" => ~Anomalous(in.dt, in.r)
        /\ Iteration(in.dt, in.r)
        /\ UNCHANGED ticks

StartCommand ==
    /\ mission_status = "idle"
    /\ \E mission_data \in Descriptors, offset \in StartOffsets :
          /\ mission_data.waypoints # << >>
          /\ CommandWith("start", mission_data, offset)

LiveNext ==
    \/ Run /\ UNCHANGED <<cpvars, wsvars>>
    \/ LiveTick /\ UNCHANGED <<cpvars, wsvars>>
    \/ ResumeWaypointReached /\ UNCHANGED <<cpvars, wsvars>>
    \/ ResumeCompleted /\ UNCHANGED <<cpvars, wsvars>>
    \/ StartCommand /\ UNCHANGED <<cpvars, wsvars>>
    \/ ConnectionLost /\ UNCHANGED <<cpvars, wsvars>>
    \/ ListenerExit /\ UNCHANGED <<cpvars, wsvars>>

\* The loop is asleep with a mission to fly: an iteration is then enabled,
\* and it changes the state.
TickDue == tick_pc = "sleep" /\ running /\ mission_status = "running"

\* "while self.running" iterates again after every sleep (weak fairness of
\* the iteration, stated with TickDue for its enabling condition), and a send
\* the task awaits completes or raises.
Fairness ==
    /\ []<>(~TickDue) \/ []<><<LiveTick>>_vars
    /\ WF_vars(ResumeWaypointReached)
    /\ WF_vars(ResumeCompleted)

LiveSpec == Init /\ [][LiveNext]_vars /\ Fairness

----------------------------------------------------------------------------
\* Steps of the two tasks, as the properties below name them.

\* A step of the tick task.
TickTaskStep ==
    Tick \/ LiveTick \/ ResumeAllReached \/ ResumeWaypointReached \/ ResumeCompleted

\* A step of the tick task that ends a loop iteration (the task reaches its sleep).
IterationEnds == TickTaskStep /\ tick_pc' = "sleep"

\* A step of the command task.
CommandStep == cmds' # cmds

\* The vehicle as the pause contract names it.
Vehicle(st) ==
    <<st.latitude, st.longitude, st.altitude_m, st.heading_deg, st.speed_ms,
      st.ground_speed_ms, st.vertical_speed_ms, st.battery_percent>>

\* The mission_status messages of msgs with one of the given statuses.
StatusEvents(msgs, statuses) ==
    SelectSeq(msgs, LAMBDA m : m.type = "mission_status" /\ m.data.status \in statuses)

\* The telemetry messages of msgs.
Telemetry(msgs) == SelectSeq(msgs, LAMBDA m : m.type = "telemetry")

\* The text contains the word "battery", whatever its case.
MentionsBattery(message) ==
    \E i \in DOMAIN Words(message) : Words(message)[i] = "battery"

----------------------------------------------------------------------------
\* C1: completed and aborted are terminal: once mission_status is completed or
\* aborted no command and no tick changes it again, and the only transition
\* out of a state that is neither running nor paused is idle -> running.
C1_TerminalStates ==
    [][(mission_status \in {"idle", "completed", "aborted"}
          /\ mission_status' # mission_status)
       => (mission_status = "idle" /\ mission_status' = "running")]_vars

\* C2: commands are never applied mid-tick: a command handler runs only while
\* the tick task is in its sleep, never between the start and the end of
\* update_simulation.
C2_NoCommandMidTick ==
    [][CommandStep => tick_pc = "sleep"]_vars

\* C3: an iteration over an open connection that finds the mission running and
\* leaves the battery below 5 % ends with mission_status aborted and has sent
\* a mission_status event whose message contains "battery".
C3_LowBatteryAborts ==
    [][(IterationEnds /\ mission_status = "running" /\ websocket' = "open"
          /\ state'.battery_percent < BatteryCritical)
       => /\ mission_status' = "aborted"
          /\ \E i \in DOMAIN sent' :
                /\ sent'[i].type = "mission_status"
                /\ MentionsBattery(sent'[i].data.message)]_vars

\* C4: battery_percent stays within 0..100 in every state, and a tick executed
\* while the mission is running never increases it, whatever dt is.
C4_BatteryBounded ==
    [][/\ state'.battery_percent >= 0
       /\ state'.battery_percent <= BatteryFull
       /\ (TickTaskStep /\ mission_status = "running")
            => state'.battery_percent <= state.battery_percent]_vars

\* C7: the command handler emits started, paused, resumed or aborted only when
\* its command caused the transition of that name (idle -> running,
\* running -> paused, paused -> running, running/paused -> aborted); a command
\* that changed nothing emits none of them.
Caused(status) ==
    CASE status = "started" -> mission_status = "idle" /\ mission_status' = "running"
      [] status = "paused" -> mission_status = "running" /\ mission_status' = "paused"
      [] status = "resumed" -> mission_status = "paused" /\ mission_status' = "running"
      [] status = "aborted" ->
             mission_status \in {"running", "paused"} /\ mission_status' = "aborted"
C7_EventsOnlyOnTransitions ==
    [][CommandStep =>
         \A i \in DOMAIN sent' :
            (/\ sent'[i].type = "mission_status"
             /\ sent'[i].data.status \in {"started", "paused", "resumed", "aborted"})
            => Caused(sent'[i].data.status)]_vars

\* C8: over an open connection, an iteration that ends with the mission
\* running or paused sends exactly one telemetry message, whatever the
\* mission_id (0 included), and an iteration that ends idle, completed or
\* aborted sends none.
C8_OneTelemetryPerIteration ==
    [][(IterationEnds /\ websocket = "open" /\ websocket' = "open")
       => Len(Telemetry(sent')) =
             IF mission_status' \in {"running", "paused"} THEN 1 ELSE 0]_vars

\* C9: a step of the tick task taken while the mission is paused leaves the
\* cursor, every completed flag, the position, altitude, heading, speeds and
\* the battery as they were.
C9_PausedTicksFreeze ==
    [][(TickTaskStep /\ mission_status = "paused")
       => /\ current_waypoint_index' = current_waypoint_index
          /\ waypoints' = waypoints
          /\ Vehicle(state') = Vehicle(state)]_vars

\* C10: abort handled while the mission is running or paused leaves
\* mission_status aborted and mission_active false; abort handled while the
\* mission is idle leaves mission_status idle and every other field as it was.
C10_Abort ==
    [][(CommandStep /\ CommandWith("abort", NoData, NoOffset)) =>
         IF mission_status \in {"running", "paused"}
         THEN mission_status' = "aborted" /\ ~state'.mission_active
         ELSE mission_status = "idle" =>
                 UNCHANGED <<state, waypoints, current_waypoint_index, mission_id,
                             mission_status, websocket, running, tick_pc, tick_dt>>]_vars

\* An abort command has just aborted a mission whose battery is not critical.
C10_Witness ==
    /\ mission_status = "aborted"
    /\ ~state.mission_active
    /\ state.battery_percent >= BatteryCritical
    /\ Len(StatusEvents(sent, {"aborted"})) = 1

\* What C6 reads of a tick's status event.
EventView(m) ==
    IF m.data.status = "waypoint_reached"
    THEN <<m.data.status, m.data.current_waypoint, m.data.total_waypoints>>
    ELSE <<m.data.status>>

\* C6: when a mission of N waypoints has run to completion over an open
\* connection, the status events the tick sent for it are waypoint_reached
\* 1..N (each with total N) and then one completed, nothing else; and a
\* telemetry message taken with the cursor at k >= 1 is sent after the
\* waypoint_reached event of waypoint k.
C6_TickEvents ==
    /\ (/\ mission_status = "completed"
        /\ websocket = "open"
        /\ run_total >= 1
        /\ current_waypoint_index = run_total)
       => [i \in 1..Len(run_events) |-> EventView(run_events[i])]
            = [i \in 1..(run_total + 1) |->
                 IF i <= run_total THEN <<"waypoint_reached", i, run_total>>
                 ELSE <<"completed">>]
    /\ websocket = "open" =>
          \A i \in DOMAIN sent :
             (sent[i].type = "telemetry" /\ sent[i].cursor >= 1)
             => \E j \in DOMAIN run_events :
                   EventView(run_events[j])
                     = <<"waypoint_reached", sent[i].cursor, run_total>>

\* A mission of two waypoints has completed over an open connection.
C6_Witness ==
    /\ mission_status = "completed"
    /\ websocket = "open"
    /\ run_total = 2
    /\ current_waypoint_index = 2
    /\ Len(run_events) = 3

----------------------------------------------------------------------------
\* The simulator's state without the messages of the step.
SimulatorState(s) == [s EXCEPT !.log = << >>]

\* The statuses a command acts in, and the status it leaves.
SourceStatuses(action) ==
    CASE action = "pause" -> {"running"}
      [] action = "resume" -> {"paused"}
      [] action = "abort" -> {"running", "paused"}
TargetStatus(action) ==
    CASE action = "pause" -> "paused"
      [] action = "resume" -> "running"
      [] action = "abort" -> "aborted"

\* C11: in every reachable state, a pause, resume or abort command changes the
\* status to its target when the status is one it acts in, leaves the whole
\* simulator state as it is from any other status, and delivered twice in a
\* row leaves the state it leaves when delivered once.
C11_GuardedCommands ==
    \A action \in {"pause", "resume", "abort"} :
        LET once == handle_command(Self, action, NoData, NoOffset)
            twice == handle_command(once, action, NoData, NoOffset)
        IN  /\ SimulatorState(twice) = SimulatorState(once)
            /\ mission_status \notin SourceStatuses(action)
                  => SimulatorState(once) = SimulatorState(Self)
            /\ mission_status \in SourceStatuses(action)
                  => /\ once.mission_status = TargetStatus(action)
                     /\ [SimulatorState(once) EXCEPT
                            !.mission_status = mission_status,
                            !.state.mission_active = state.mission_active]
                          = SimulatorState(Self)

\* A pause command was handled after the mission was aborted.
C11_Witness ==
    /\ mission_status = "aborted"
    /\ cmds = 3
    /\ StatusEvents(sent, {"paused"}) # << >>

\* C12: in every reachable state where the mission is running, a start command
\* leaves mission_id, the waypoints and their completed flags, the cursor, the
\* status and the vehicle state as they are, whatever descriptor it carries.
C12_StartWhileRunning ==
    mission_status = "running" =>
        \A mission_data \in Descriptors, offset \in StartOffsets :
            SimulatorState(handle_command(Self, "start", mission_data, offset))
                = SimulatorState(Self)

\* A start command was handled while the mission was running, past its first
\* waypoint.
C12_Witness ==
    /\ mission_status = "running"
    /\ current_waypoint_index = 1
    /\ waypoints[1].completed
    /\ StatusEvents(sent, {"started"}) # << >>

\* C13: a start command that puts the mission into running leaves the
\* descriptor's waypoints, in order and none completed, in place of the list
\* there was, the cursor at 0, the battery at 100 %, and is_flying and
\* mission_active true.
C13_StartResets ==
    [][\A mission_data \in Descriptors, offset \in StartOffsets :
         (/\ CommandStep
          /\ CommandWith("start", mission_data, offset)
          /\ mission_status # "running"
          /\ mission_status' = "running")
         => /\ waypoints' =
                  [i \in 1..Len(mission_data.waypoints) |->
                      [latitude |-> mission_data.waypoints[i].latitude,
                       longitude |-> mission_data.waypoints[i].longitude,
                       altitude_m |-> mission_data.waypoints[i].altitude_m,
                       completed |-> FALSE]]
            /\ current_waypoint_index' = 0
            /\ state'.battery_percent = BatteryFull
            /\ state'.is_flying
            /\ state'.mission_active]_vars

\* C14: a start command whose descriptor has no waypoints, handled while the
\* mission is idle, leaves the mission idle, and no step that is not a received
\* message (a tick above all) moves the mission out of idle afterwards.
C14_EmptyStartStaysIdle ==
    [][/\ \A mission_data \in Descriptors :
            (/\ CommandStep
             /\ mission_status = "idle"
             /\ mission_data.waypoints = << >>
             /\ CommandWith("start", mission_data, NoOffset))
            => mission_status' = "idle"
       /\ (mission_status = "idle" /\ mission_id # None /\ cmds' = cmds)
            => mission_status' = "idle"]_vars

\* A loop iteration has run (the started message is no longer the last thing
\* sent) after a start without waypoints was handled in idle.
C14_Witness ==
    /\ mission_status = "idle"
    /\ mission_id = 1
    /\ waypoints = << >>
    /\ cmds = 1
    /\ websocket = "open"
    /\ listening
    /\ sent = << >>

\* A start command begins a new mission run.
AcceptedStart ==
    /\ CommandStep
    /\ mission_status # "running"
    /\ mission_status' = "running"
    /\ \E mission_data \in Descriptors, offset \in StartOffsets :
          CommandWith("start", mission_data, offset)

\* C15: no step but a start that begins a new run resets a completed flag that
\* is true, and after every step (at every tick boundary above all) waypoint i,
\* counted from 0, is completed if and only if i < current_waypoint_index.
C15_CompletedFlags ==
    [][/\ \A i \in DOMAIN waypoints' :
            waypoints'[i].completed <=> i - 1 < current_waypoint_index'
       /\ ~AcceptedStart =>
            \A i \in DOMAIN waypoints \cap DOMAIN waypoints' :
                waypoints[i].completed => waypoints'[i].completed]_vars

\* A tick boundary of a two-waypoint run with the first waypoint completed and
\* the second one not.
C15_Witness ==
    /\ tick_pc = "sleep"
    /\ mission_status = "running"
    /\ Len(waypoints) = 2
    /\ current_waypoint_index = 1
    /\ waypoints[1].completed
    /\ ~waypoints[2].completed
    /\ ticks = 2

\* C16: whenever the mission is running, 0 <= current_waypoint_index <=
\* len(waypoints); and a loop iteration that begins with the mission running
\* and the cursor at len(waypoints) leaves the mission completed and
\* mission_active false.
C16_CursorInRange ==
    [][/\ mission_status' = "running" =>
            /\ 0 <= current_waypoint_index'
            /\ current_waypoint_index' <= Len(waypoints')
       /\ (/\ Tick
           /\ mission_status = "running"
           /\ current_waypoint_index = Len(waypoints))
            => mission_status' = "completed" /\ ~state'.mission_active]_vars

\* C17: a send that raises marks the channel unavailable and stops nothing: a
\* step of the tick task that finds the connection closed and sends a status
\* message (it reaches a waypoint or completes the mission) leaves websocket
\* cleared; a step of the tick task without an open connection emits nothing
\* and leaves the loop running.
C17_FailedSendClearsChannel ==
    [][/\ (/\ TickTaskStep
           /\ websocket = "closed"
           /\ \/ current_waypoint_index' # current_waypoint_index
              \/ mission_status # "completed" /\ mission_status' = "completed")
            => websocket' = "none"
       /\ (TickTaskStep /\ websocket # "open")
            => sent' = << >> /\ running' = running]_vars

\* C18: once an abort command has aborted the mission, at most one further loop
\* iteration begins, and run_simulation_loop has exited after it: the iteration
\* that finds the mission aborted by a command leaves running false.
C18_AbortStopsLoop ==
    [][(/\ Tick
        /\ mission_status = "aborted"
        /\ StatusEvents(sent, {"aborted"}) # << >>
        /\ state.battery_percent >= BatteryCritical)
       => ~running']_vars

C20_NonPositiveDt ==
    [][\A in \in TickInputs :
         (in.dt <= 0 /\ TickWith(in.dt, in.r))
         => /\ state'.latitude = state.latitude
            /\ state'.longitude = state.longitude
            /\ state'.altitude_m = state.altitude_m
            /\ state'.heading_deg = state.heading_deg
            /\ state'.battery_percent = state.battery_percent]_vars

\* C21: when the distance from the vehicle to a waypoint is at most the arrival
\* tolerance (a waypoint at the vehicle's position included), the navigation
\* step reports reached and changes no field of the vehicle state; when the
\* distance is greater it reports not reached.
C21_ArrivalTolerance ==
    mission_status \in {"running", "paused"} =>
        \A i \in DOMAIN waypoints, in \in TickInputs :
            LET m == move_towards_waypoint(state, waypoints[i], in.dt, in.r)
                distance == calculate_distance(state.latitude, state.longitude,
                                waypoints[i].latitude, waypoints[i].longitude)
            IN  /\ (state.latitude = waypoints[i].latitude
                      /\ state.longitude = waypoints[i].longitude) => m.reached
                /\ distance <= position_tolerance_m => m.reached /\ m.state = state
                /\ distance > position_tolerance_m => ~m.reached

\* The navigation step has just reported a waypoint reached that the vehicle,
\* still moving, is near but not at.
C21_Witness ==
    /\ tick_pc = "sent_waypoint_reached"
    /\ current_waypoint_index >= 1
    /\ waypoints # << >>
    /\ state.speed_ms > 0
    /\ LET w == waypoints[current_waypoint_index]
       IN  /\ w.completed
           /\ calculate_distance(state.latitude, state.longitude,
                                 w.latitude, w.longitude) \in 1..position_tolerance_m

\* C23: once abort_mission has set mission_status to aborted, no step of the
\* tick task sets mission_status to completed or sends a completed message,
\* whatever the interleaving of the command task with the tick.
C23_AbortNotOverwritten ==
    [][(mission_status = "aborted" /\ TickTaskStep)
       => /\ mission_status' # "completed"
          /\ StatusEvents(sent', {"completed"}) = << >>]_vars

\* C24: a start command whose descriptor has no waypoints leaves mission_id,
\* the waypoint list with its completed flags and current_waypoint_index as
\* they were, from every status; a paused mission that is resumed after such a
\* start is not completed by a loop iteration that reaches no waypoint unless
\* its waypoints were all reached before.
C24_FailedStartFrame ==
    [][/\ \A mission_data \in Descriptors :
            (/\ CommandStep
             /\ mission_data.waypoints = << >>
             /\ CommandWith("start", mission_data, NoOffset))
            => UNCHANGED <<mission_id, waypoints, current_waypoint_index>>
       /\ (/\ Tick
           /\ mission_status = "running"
           /\ current_waypoint_index < run_total
           /\ current_waypoint_index' = current_waypoint_index)
            => mission_status' # "completed"]_vars

\* C25: at every tick boundary mission_active is true if and only if
\* mission_status is running or paused; it is false after a user abort, after
\* the low-battery abort and after completion.
C25_MissionActive ==
    tick_pc = "sleep" =>
        (state.mission_active <=> mission_status \in {"running", "paused"})

----------------------------------------------------------------------------
\* The control plane: src/backend/main.py and src/backend/websocket_manager.py.
\* A mission row is its status; the telemetry table and the timestamps are
\* left out.  One user owns every mission.

\* HTTP requests explored, and simulator messages the connection holds before
\* a further send waits.
MaxRequests == 3
MaxInFlight == 2

\* The one simulator socket there is to connect.
SimulatorSocket == 1

\* Mission.waypoints of a stored mission.
StoredWaypoints(id) == IF id = 1 THEN <<WpA>> ELSE <<WpA, WpB>>

\* The ids requests name: the stored missions and one that does not exist.
RequestIds == MissionIds \cup {3}

\* The control plane, as the handlers below transform it.
Backend ==
    [missions |-> missions,
     mission_logs |-> mission_logs,
     simulator_connections |-> simulator_connections,
     websocket_simulator |-> websocket_simulator,
     to_simulator |-> to_simulator,
     response |-> response]

\* A MissionLog row: its mission and data["auto_completed"].
MissionLog(id, auto_completed) == [mission_id |-> id, auto_completed |-> auto_completed]

\* WebSocketManager.send_command: to every connected simulator; a socket
\* whose send raises (its endpoint coroutine is gone) is disconnected.
send_command(b, command) ==
    IF b.simulator_connections = {} THEN b
    ELSE IF b.websocket_simulator = "serving"
         THEN [b EXCEPT !.to_simulator = Append(@, command)]
         ELSE [b EXCEPT !.simulator_connections = {}]

\* A command without waypoints.
Order(action, id) == [action |-> action, mission_id |-> id, waypoints |-> << >>]

\* POST /missions/{mission_id}/start.
backend_start_mission(b, id) ==
    IF id \notin DOMAIN b.missions THEN [b EXCEPT !.response = 404]
    ELSE IF b.missions[id] # "planned" THEN [b EXCEPT !.response = 400]
    ELSE send_command([b EXCEPT !.missions[id] = "running", !.response = 200],
                      [action |-> "start", mission_id |-> id,
                       waypoints |-> StoredWaypoints(id)])

\* POST /missions/{mission_id}/pause.
backend_pause_mission_unguarded(b, id) ==
    IF id \notin DOMAIN b.missions THEN [b EXCEPT !.response = 404]
    ELSE send_command([b EXCEPT !.missions[id] = "paused", !.response = 200],
                      Order("pause", id))

backend_pause_mission(b, id) ==
    IF id \notin DOMAIN b.missions THEN [b EXCEPT !.response = 404]
    ELSE IF b.missions[id] # "running" THEN [b EXCEPT !.response = 400]
    ELSE send_command([b EXCEPT !.missions[id] = "paused", !.response = 200],
                      Order("pause", id))

\* POST /missions/{mission_id}/resume.
backend_resume_mission(b, id) ==
    IF id \notin DOMAIN b.missions THEN [b EXCEPT !.response = 404]
    ELSE IF b.missions[id] # "paused" THEN [b EXCEPT !.response = 400]
    ELSE send_command([b EXCEPT !.missions[id] = "running", !.response = 200],
                      Order("resume", id))

\* POST /missions/{mission_id}/abort.
backend_abort_mission(b, id) ==
    IF id \notin DOMAIN b.missions THEN [b EXCEPT !.response = 404]
    ELSE IF b.missions[id] \notin {"running", "paused"} THEN [b EXCEPT !.response = 400]
    ELSE send_command([b EXCEPT !.missions[id] = "aborted", !.response = 200],
                      Order("abort", id))

\* The lifecycle endpoints.
Endpoints == {"start", "pause", "resume", "abort"}

endpoint(b, name, id) ==
    CASE name = "start" -> backend_start_mission(b, id)
      [] name = "pause" -> backend_pause_mission(b, id)
      [] name = "resume" -> backend_resume_mission(b, id)
      [] name = "abort" -> backend_abort_mission(b, id)

\* PATCH bodies explored: progress and current_waypoint_index, each absent or
\* a number.
StateUpdates ==
    {[progress |-> p, current_waypoint_index |-> c] :
        p \in {Absent, 50, 100}, c \in {Absent, 1}}

\* PATCH /missions/{mission_id}/state.  The Mission class maps neither
\* progress nor current_waypoint_index (database.py, lines 54 to 76), so the
\* object has the attribute only once setattr has put it there: reading it
\* otherwise raises AttributeError, the request ends with status 500 and the
\* session is closed without a commit.
update_mission_state_stale_status(b, id, state_update) ==
    IF id \notin DOMAIN b.missions THEN [b EXCEPT !.response = 404]
    ELSE IF state_update.progress = Absent THEN [b EXCEPT !.response = 500]
    ELSE LET progress == state_update.progress
             by_progress == /\ progress # None
                            /\ progress >= 100
                            /\ b.missions[id] = "running"
             b1 == IF by_progress
                   THEN [b EXCEPT !.missions[id] = "completed",
                                  !.mission_logs = Append(@, MissionLog(id, TRUE))]
                   ELSE b
             total_waypoints == Len(StoredWaypoints(id))
             index == state_update.current_waypoint_index
         IN  IF index = Absent THEN [b EXCEPT !.response = 500]
             ELSE LET by_waypoints == /\ index # None
                                      /\ total_waypoints > 0
                                      /\ index >= total_waypoints
                                      /\ b.missions[id] = "running"
                      b2 == IF by_waypoints
                            THEN [b1 EXCEPT !.missions[id] = "completed",
                                            !.mission_logs = Append(@, MissionLog(id, TRUE))]
                            ELSE b1
                  IN  [b2 EXCEPT !.response = 200]

update_mission_state(b, id, state_update) ==
    IF id \notin DOMAIN b.missions THEN [b EXCEPT !.response = 404]
    ELSE IF state_update.progress = Absent THEN [b EXCEPT !.response = 500]
    ELSE LET progress == state_update.progress
             by_progress == /\ progress # None
                            /\ progress >= 100
                            /\ b.missions[id] = "running"
             b1 == IF by_progress
                   THEN [b EXCEPT !.missions[id] = "completed",
                                  !.mission_logs = Append(@, MissionLog(id, TRUE))]
                   ELSE b
             total_waypoints == Len(StoredWaypoints(id))
             index == state_update.current_waypoint_index
         IN  IF index = Absent THEN [b EXCEPT !.response = 500]
             ELSE LET by_waypoints == /\ index # None
                                      /\ total_waypoints > 0
                                      /\ index >= total_waypoints
                                      /\ b1.missions[id] = "running"
                      b2 == IF by_waypoints
                            THEN [b1 EXCEPT !.missions[id] = "completed",
                                            !.mission_logs = Append(@, MissionLog(id, TRUE))]
                            ELSE b1
                  IN  [b2 EXCEPT !.response = 200]

\* A simulator message as the handlers read it: its type, and of its data
\* the mission_id and the status (telemetry has none).
Received(message) ==
    [type |-> message.type,
     mission_id |-> message.data.mission_id,
     status |-> IF message.type = "mission_status" THEN message.data.status ELSE ""]

\* handle_telemetry_update: the row is stored, then the auto-completion reads
\* mission.progress of a running mission (line 1001), which raises
\* AttributeError; the exception leaves the handler.  broadcast_telemetry
\* returns at once while no client is connected.
handle_telemetry_update(b, data) ==
    IF /\ Truthy(data.mission_id)
       /\ data.mission_id \in DOMAIN b.missions
       /\ b.missions[data.mission_id] = "running"
    THEN [b EXCEPT !.websocket_simulator = "raised"]
    ELSE b

\* handle_mission_complete.
handle_mission_complete(b, data) ==
    IF data.mission_id \in DOMAIN b.missions
    THEN [b EXCEPT !.missions[data.mission_id] = "completed",
                   !.mission_logs = Append(@, MissionLog(data.mission_id, FALSE))]
    ELSE b

\* handle_mission_status_update.
handle_mission_status_update(b, data) ==
    IF data.mission_id \notin DOMAIN b.missions THEN b
    ELSE IF data.status = "completed"
         THEN [b EXCEPT !.missions[data.mission_id] = "completed",
                        !.mission_logs = Append(@, MissionLog(data.mission_id, FALSE))]
    ELSE IF data.status = "waypoint_reached"
         THEN [b EXCEPT !.mission_logs = Append(@, MissionLog(data.mission_id, FALSE))]
    ELSE b

\* websocket_simulator: one message is received and dispatched on its type.
\* Only WebSocketDisconnect is caught, so any other exception ends the
\* coroutine with the socket still in simulator_connections.
receive_text(b, message) ==
    CASE message.type = "telemetry" -> handle_telemetry_update(b, message)
      [] message.type = "mission_complete" -> handle_mission_complete(b, message)
      [] message.type = "mission_status" -> handle_mission_status_update(b, message)
      [] OTHER -> b

----------------------------------------------------------------------------
\* The control plane and one simulator, connected.

\* The control plane after a handler returned or raised.
CommitBackend(b) ==
    /\ missions' = b.missions
    /\ mission_logs' = b.mission_logs
    /\ simulator_connections' = b.simulator_connections
    /\ websocket_simulator' = b.websocket_simulator
    /\ to_simulator' = b.to_simulator
    /\ response' = b.response

\* What the simulator's step sent travels to the backend.
Deliver ==
    to_backend' = to_backend \o [i \in 1..Len(sent') |-> Received(sent'[i])]

\* A request to a lifecycle endpoint.
RequestWith(name, id) ==
    /\ requests < MaxRequests
    /\ requests' = requests + 1
    /\ request' = [endpoint |-> name, mission_id |-> id, state_update |-> NoUpdate]
    /\ CommitBackend(endpoint(Backend, name, id))
    /\ UNCHANGED <<to_backend, started, wsvars, vars>>

Request == \E name \in Endpoints, id \in RequestIds : RequestWith(name, id)

\* A PATCH of a mission's state.
StateUpdateWith(id, state_update) ==
    /\ requests < MaxRequests
    /\ requests' = requests + 1
    /\ request' = [endpoint |-> "state", mission_id |-> id, state_update |-> state_update]
    /\ CommitBackend(update_mission_state(Backend, id, state_update))
    /\ UNCHANGED <<to_backend, started, wsvars, vars>>

StateUpdate ==
    \E id \in MissionIds, state_update \in StateUpdates : StateUpdateWith(id, state_update)

\* run, and connect_simulator when connect_to_backend succeeded.
SimulatorRun ==
    /\ Run
    /\ simulator_connections' = IF websocket' = "open" THEN {SimulatorSocket} ELSE {}
    /\ websocket_simulator' = IF websocket' = "open" THEN "serving" ELSE "none"
    /\ UNCHANGED <<missions, mission_logs, to_simulator, to_backend, request,
                   response, requests, started, wsvars>>

\* A loop iteration of nominal length, up to its first suspension.
SimulatorTick ==
    /\ Len(to_backend) < MaxInFlight
    /\ TickWith(1, Quiet)
    /\ Deliver
    /\ UNCHANGED <<missions, mission_logs, simulator_connections,
                   websocket_simulator, to_simulator, request, response,
                   requests, started, wsvars>>

\* The rest of the iteration, once the send it awaits completed.
SimulatorResume ==
    /\ Len(to_backend) < MaxInFlight
    /\ \/ tick_pc = "sent_waypoint_reached"
          /\ ResumeWith(CheckComplete(Self, tick_dt, Quiet), Quiet)
       \/ tick_pc = "sent_completed"
          /\ ResumeWith(UpdateSystems(Self, tick_dt, Quiet), Quiet)
    /\ Deliver
    /\ UNCHANGED <<missions, mission_logs, simulator_connections,
                   websocket_simulator, to_simulator, request, response,
                   requests, started, wsvars>>

\* listen_for_commands receives the oldest command in flight.
SimulatorReceive ==
    /\ to_simulator # << >>
    /\ Len(to_backend) < MaxInFlight
    /\ LET command == Head(to_simulator)
       IN  /\ CommandWith(command.action,
                          [mission_id |-> command.mission_id,
                           waypoints |-> command.waypoints], NoOffset)
           /\ started' = IF /\ command.action = "start"
                            /\ mission_status # "running"
                            /\ mission_status' = "running"
                         THEN started \cup {command.mission_id} ELSE started
    /\ to_simulator' = Tail(to_simulator)
    /\ Deliver
    /\ UNCHANGED <<missions, mission_logs, simulator_connections,
                   websocket_simulator, request, response, requests, wsvars>>

\* websocket_simulator receives the oldest message in flight.  When the
\* handler raises, the coroutine ends and the server closes the connection:
\* what was in flight is lost and every later send of the simulator raises.
BackendReceive ==
    /\ to_backend # << >>
    /\ websocket_simulator = "serving"
    /\ LET b == receive_text(Backend, Head(to_backend))
           raised == b.websocket_simulator = "raised"
       IN  /\ CommitBackend([b EXCEPT !.to_simulator = IF raised THEN << >> ELSE @])
           /\ to_backend' = IF raised THEN << >> ELSE Tail(to_backend)
           /\ websocket' = IF raised THEN "closed" ELSE websocket
    /\ UNCHANGED <<state, waypoints, current_waypoint_index, mission_id,
                   mission_status, running, tick_pc, tick_dt, listening, sent,
                   run_events, run_total, ticks, cmds, dropped, anomalies>>
    /\ UNCHANGED <<request, requests, started, wsvars>>

\* The connection drops: websocket_simulator catches WebSocketDisconnect and
\* disconnect_simulator runs; what was in flight is lost.
SimulatorDisconnect ==
    /\ ConnectionLost
    /\ simulator_connections' = {}
    /\ websocket_simulator' = "none"
    /\ to_simulator' = << >>
    /\ to_backend' = << >>
    /\ UNCHANGED <<missions, mission_logs, request, response, requests,
                   started, wsvars>>

BackendNext ==
    \/ Request
    \/ StateUpdate
    \/ SimulatorRun
    \/ SimulatorTick
    \/ SimulatorResume
    \/ SimulatorReceive
    \/ BackendReceive
    \/ SimulatorDisconnect
    \/ ListenerExit /\ UNCHANGED <<cpvars, wsvars>>

bvars == <<vars, cpvars, wsvars>>

BackendSpec == Init /\ [][BackendNext]_bvars

----------------------------------------------------------------------------
\* The statuses an endpoint accepts, and the one it then persists.
LifecycleSources(name) ==
    CASE name = "start" -> {"planned"}
      [] name = "pause" -> {"running"}
      [] name = "resume" -> {"paused"}
      [] name = "abort" -> {"running", "paused"}

LifecycleTarget(name) ==
    CASE name = "start" -> "running"
      [] name = "pause" -> "paused"
      [] name = "resume" -> "running"
      [] name = "abort" -> "aborted"

C26_ForeignCommands ==
    [][(/\ to_simulator # << >>
        /\ Head(to_simulator).action \in {"pause", "resume", "abort"}
        /\ Head(to_simulator).mission_id # mission_id
        /\ SimulatorReceive)
       => mission_status' = mission_status]_bvars

\* C27: no step of the control plane changes a persisted status from aborted
\* to completed, whatever message arrives from the simulator after the abort.
C27_AbortedNotCompleted ==
    [][\A id \in MissionIds :
          missions[id] = "aborted" => missions'[id] # "completed"]_bvars

\* The automatic-completion entries of a mission among the log rows.
AutoCompletions(logs, id) ==
    SelectSeq(logs, LAMBDA entry : entry.mission_id = id /\ entry.auto_completed)

C30_RunningMeansStarted ==
    \A id \in MissionIds :
        missions[id] = "running" =>
            \/ id \in started
            \/ \E i \in DOMAIN to_simulator :
                  /\ to_simulator[i].action = "start"
                  /\ to_simulator[i].mission_id = id

----------------------------------------------------------------------------
\* WebSocketManager's telemetry clients (src/backend/websocket_manager.py).
\* telemetry_connections maps a mission id to the set object of its clients.
\* A broadcast iterates over that object and awaits a send per client, and
\* the endpoints of other clients run while it waits.  A set iterator raises
\* RuntimeError on the first step that finds the set's size changed; when
\* the members changed and the size did not, what it yields next depends on
\* the hash table, so any client not yet visited, or the end, can follow.

\* The two methods that iterate.
Broadcasts == {"broadcast_telemetry", "send_mission_update"}

\* connect_telemetry, after the accept.
connect_telemetry(connections, client, id) ==
    [k \in DOMAIN connections \cup {id} |->
        IF k \notin DOMAIN connections THEN {client}
        ELSE IF k = id THEN connections[k] \cup {client}
        ELSE connections[k]]

\* disconnect_telemetry: discard, and delete the key of a set left empty.
disconnect_telemetry(connections, client, id) ==
    IF id \notin DOMAIN connections THEN connections
    ELSE IF connections[id] \ {client} = {}
         THEN [k \in DOMAIN connections \ {id} |-> connections[k]]
         ELSE [connections EXCEPT ![id] = @ \ {client}]

\* The clean-up loop of a broadcast: disconnect_telemetry for every client
\* of the list, in any order.
RECURSIVE CleanUp(_, _, _)
CleanUp(connections, disconnected_clients, id) ==
    IF disconnected_clients = {} THEN connections
    ELSE LET client == CHOOSE w \in disconnected_clients : TRUE
         IN  CleanUp(disconnect_telemetry(connections, client, id),
                     disconnected_clients \ {client}, id)

\* The set object a broadcast in progress iterates over, as it is now: once
\* its key was deleted it is empty, and a later client of the mission joins
\* a new object.
Iterated ==
    IF broadcast.detached \/ broadcast.mission_id \notin DOMAIN telemetry_connections
    THEN {}
    ELSE telemetry_connections[broadcast.mission_id]

\* A client connects to /ws/telemetry/{mission_id}.
ConnectTelemetry ==
    /\ \E client \in Clients, id \in MissionIds :
          /\ clients[client].status = "new"
          /\ clients' = [clients EXCEPT ![client] = [status |-> "open", mission_id |-> id]]
          /\ telemetry_connections' = connect_telemetry(telemetry_connections, client, id)
    /\ UNCHANGED broadcast

\* A client's connection breaks: a send to it raises from now on.
ClientBreaks ==
    /\ \E client \in Clients :
          /\ clients[client].status = "open"
          /\ clients' = [clients EXCEPT ![client].status = "broken"]
    /\ UNCHANGED <<telemetry_connections, broadcast>>

\* The client's endpoint catches WebSocketDisconnect.
DisconnectTelemetry ==
    /\ \E client \in Clients :
          /\ clients[client].status \in {"open", "broken"}
          /\ clients' = [clients EXCEPT ![client].status = "gone"]
          /\ telemetry_connections' =
                disconnect_telemetry(telemetry_connections, client,
                                     clients[client].mission_id)
          /\ broadcast' =
                IF /\ broadcast.pc = "sending"
                   /\ broadcast.mission_id = clients[client].mission_id
                   /\ broadcast.mission_id \notin DOMAIN telemetry_connections'
                THEN [broadcast EXCEPT !.detached = TRUE]
                ELSE broadcast

\* A broadcast begins: nothing to do for a mission without clients;
\* otherwise the iterator is created and the first send is awaited.
BroadcastBegin ==
    /\ broadcast.pc = "idle"
    /\ \E call \in Broadcasts, id \in MissionIds :
          IF id \notin DOMAIN telemetry_connections
          THEN broadcast' = [NoBroadcast EXCEPT !.call = call, !.mission_id = id]
          ELSE \E client \in telemetry_connections[id] :
                  broadcast' = [pc |-> "sending", call |-> call, mission_id |-> id,
                                members |-> telemetry_connections[id],
                                visited |-> {client}, client |-> client,
                                disconnected_clients |-> {}, detached |-> FALSE,
                                raised |-> FALSE]
    /\ UNCHANGED <<telemetry_connections, clients>>

\* The awaited send returns or raises, and the loop takes its next step: the
\* iterator raises, yields another client, or ends, and then the clean-up
\* loop runs.
BroadcastStep ==
    /\ broadcast.pc = "sending"
    /\ LET failed == IF clients[broadcast.client].status = "open"
                     THEN broadcast.disconnected_clients
                     ELSE broadcast.disconnected_clients \cup {broadcast.client}
           now == Iterated
           rest == now \ broadcast.visited
           raise == /\ broadcast' = [broadcast EXCEPT !.pc = "idle", !.raised = TRUE,
                                                      !.disconnected_clients = failed]
                    /\ UNCHANGED telemetry_connections
           yield == \E client \in rest :
                       /\ broadcast' = [broadcast EXCEPT !.client = client,
                                           !.visited = @ \cup {client},
                                           !.disconnected_clients = failed]
                       /\ UNCHANGED telemetry_connections
           finish == /\ broadcast' = [broadcast EXCEPT !.pc = "idle",
                                                       !.disconnected_clients = failed]
                     /\ telemetry_connections' =
                           CleanUp(telemetry_connections, failed, broadcast.mission_id)
       IN  IF Cardinality(now) # Cardinality(broadcast.members) THEN raise
           ELSE IF now = broadcast.members
                THEN IF rest # {} THEN yield ELSE finish
                ELSE yield \/ finish
    /\ UNCHANGED clients

BroadcastNext ==
    \/ ConnectTelemetry /\ UNCHANGED <<vars, cpvars>>
    \/ ClientBreaks /\ UNCHANGED <<vars, cpvars>>
    \/ DisconnectTelemetry /\ UNCHANGED <<vars, cpvars>>
    \/ BroadcastBegin /\ UNCHANGED <<vars, cpvars>>
    \/ BroadcastStep /\ UNCHANGED <<vars, cpvars>>

BroadcastSpec == Init /\ [][BroadcastNext]_wsvars

\* C28: while a broadcast iterates, the set it iterates over has the members
\* it had when the iteration began; once the broadcast is over no client
\* whose send failed is left in the mission's set; and no mission maps to an
\* empty set.
C28_StableIteration ==
    /\ broadcast.pc = "sending" => Iterated = broadcast.members
    /\ broadcast.pc = "idle" =>
          \A client \in broadcast.disconnected_clients :
              \A id \in DOMAIN telemetry_connections :
                  client \notin telemetry_connections[id]
    /\ \A id \in DOMAIN telemetry_connections : telemetry_connections[id] # {}

====
